---- MODULE Spec2Model ----
(***************************************************************************)
(* Pano2Pers (panolib/pano2pers/pano2pers_numpy/pano2pers.py): the numpy   *)
(* projector that turns an equirectangular panorama into a perspective     *)
(* view.  The projector object (camera configuration and the two lazily    *)
(* cached matrices), one call of __call__ taken step by step (entry        *)
(* checks, one loop iteration per image/rotation pair, re-assembly of the  *)
(* output container), and the pixel mapping of _run_single.                *)
(*                                                                         *)
(* Numbers.  Rotation angles are counted in units of which HalfPi make     *)
(* pi/2, so that the rotations by multiples of a quarter turn have integer *)
(* matrices.  The focal length is kept in thousandths.  The pixel          *)
(* coordinates of the sampling grid are binary floating-point numbers,     *)
(* rounded at every operation.                                             *)
(***************************************************************************)
EXTENDS Integers, Sequences, FiniteSets

VARIABLES
    w_pers, h_pers, fov_x, skew,   \* the camera configuration (attributes of self)
    _K,                            \* the attribute self._K: Unset, or <<matrix>>
    _g2c_rot,                      \* the attribute self._g2c_rot: Unset, or <<matrix>>
    pc,                            \* position of the current call of __call__
    arg_pano, arg_rot,             \* the arguments as the caller gave them
    pano, rot,                     \* the locals pano and rot (rebound at lines 174-175)
    sampling_method, mode,
    idx,                           \* position of the zip iterator, from 1
    samples,                       \* the local list samples
    result,                        \* the returned value
    err,                           \* the exception that ended the call
    work,                          \* numeric work done so far in the current call
    proj                           \* one entry of the sampling grid, step by step

vars == <<w_pers, h_pers, fov_x, skew, _K, _g2c_rot, pc, arg_pano, arg_rot,
          pano, rot, sampling_method, mode, idx, samples, result, err, work, proj>>

camVars == <<w_pers, h_pers, fov_x, skew, _K, _g2c_rot>>
callVars == <<pc, arg_pano, arg_rot, pano, rot, sampling_method, mode, idx,
              samples, result, err, work>>

-----------------------------------------------------------------------------
(* Bounds of the model *)

\* the largest number of images, and of rotation specs, in one call
MaxBatch == 3

\* angle resolution: the number of angle units in pi/2
HalfPi == 2

Pi == 2 * HalfPi

\* a cached attribute is <<>> while the object does not have it, else <<value>>
Unset == <<>>
None == "none"

-----------------------------------------------------------------------------
(* Camera configuration *)

Widths == {4, 8}
Heights == {2, 4}
Fovs == {60, 90}
Skews == {0, 1}

\* np.tan(np.radians(fov_x) / 2.), in thousandths
TanHalfFov(fov) ==
    CASE fov = 60 -> 577
      [] fov = 90 -> 1000
      [] fov = 120 -> 1732

\* f = w_pers / (2 tan(fov_x/2)), in thousandths
FocalLength(w, fov) == (w * 1000 * 1000) \div (2 * TanHalfFov(fov))

\* the matrix built at lines 39-44, every entry in thousandths
BuildK(w, h, fov, sk) ==
    << << FocalLength(w, fov), sk * 1000, w * 500 >>,
       << 0, FocalLength(w, fov), h * 500 >>,
       << 0, 0, 1000 >> >>

\* the property intrinsic_matrix: the matrix is built only while the object
\* has no attribute _K; the value returned is the one self._K holds afterwards
intrinsic_matrix(cache, w, h, fov, sk) ==
    IF cache = Unset THEN BuildK(w, h, fov, sk) ELSE cache[1]

\* the property perspective_coordinate: an h_pers x w_pers grid of (x, y, 1),
\* rebuilt from the current configuration at every access; kept by its extent
perspective_coordinate(w, h) == [h_out |-> h, w_out |-> w]

-----------------------------------------------------------------------------
(* Rotations *)

\* cos and sin of an angle that is a multiple of pi/2, given in angle units
QuarterTurns(a) == (a \div HalfPi) % 4

Cos(a) == CASE QuarterTurns(a) = 0 -> 1
            [] QuarterTurns(a) = 1 -> 0
            [] QuarterTurns(a) = 2 -> -1
            [] QuarterTurns(a) = 3 -> 0

Sin(a) == CASE QuarterTurns(a) = 0 -> 0
            [] QuarterTurns(a) = 1 -> 1
            [] QuarterTurns(a) = 2 -> 0
            [] QuarterTurns(a) = 3 -> -1

MatMul(A, B) ==
    [i \in 1..3 |-> [j \in 1..3 |->
        A[i][1] * B[1][j] + A[i][2] * B[2][j] + A[i][3] * B[3][j]]]

MatVec(A, v) ==
    [i \in 1..3 |-> A[i][1] * v[1] + A[i][2] * v[2] + A[i][3] * v[3]]

Identity3 == << <<1, 0, 0>>, <<0, 1, 0>>, <<0, 0, 1>> >>

RotX(a) == << <<1, 0, 0>>, <<0, Cos(a), -Sin(a)>>, <<0, Sin(a), Cos(a)>> >>
RotY(a) == << <<Cos(a), 0, Sin(a)>>, <<0, 1, 0>>, <<-Sin(a), 0, Cos(a)>> >>
RotZ(a) == << <<Cos(a), -Sin(a), 0>>, <<Sin(a), Cos(a), 0>>, <<0, 0, 1>> >>

\* utils.create_rotation_matrix: rotate about x, then y, then z
create_rotation_matrix(x, y, z) == MatMul(RotZ(z), MatMul(RotY(y), RotX(x)))

\* the property global2camera_rotation_matrix (x = y = z = np.pi)
global2camera_rotation_matrix(cache) ==
    IF cache = Unset THEN create_rotation_matrix(Pi, Pi, Pi) ELSE cache[1]

\* the method rotation_matrix: R = R_g2c @ R(roll, pitch, yaw)
rotation_matrix(g2c, r) ==
    MatMul(global2camera_rotation_matrix(g2c),
           create_rotation_matrix(r.roll, r.pitch, r.yaw))

-----------------------------------------------------------------------------
(* Binary floating point.  The pixel coordinates of lines 129-135 are       *)
(* float64 values, and every operation on them rounds to nearest, ties to   *)
(* even.  A float is [m, e], standing for m * 2^e, with MantBits            *)
(* significant bits (float64 has 53; the arithmetic here is the same with   *)
(* a shorter significand).  Zero is [0, 0]; there is no overflow or         *)
(* underflow at the magnitudes of pixel coordinates.                        *)

\* the number of significant bits of a float
MantBits == 10

RECURSIVE Pow2(_)
Pow2(k) == IF k = 0 THEN 1 ELSE 2 * Pow2(k - 1)

RECURSIVE BitLen(_)
BitLen(n) == IF n = 0 THEN 0 ELSE 1 + BitLen(n \div 2)

Abs(n) == IF n < 0 THEN -n ELSE n
Sign(n) == IF n < 0 THEN -1 ELSE 1
Min(a, b) == IF a < b THEN a ELSE b

Float(m, e) == [m |-> m, e |-> e]

\* the float nearest to (|n| + t) * 2^e with the sign of n, where sticky says
\* whether a fraction 0 < t < 1 was cut off below n
FlRound(n, e, sticky) ==
    LET a == Abs(n)
        k == BitLen(a) - MantBits
    IN  IF a = 0 THEN Float(0, 0)
        ELSE IF k <= 0 THEN Float(Sign(n) * a * Pow2(-k), e + k)
        ELSE LET q == a \div Pow2(k)
                 r == a % Pow2(k)
                 half == Pow2(k - 1)
                 up == r > half \/ (r = half /\ (sticky \/ q % 2 = 1))
                 q1 == IF up THEN q + 1 ELSE q
             IN  IF q1 = Pow2(MantBits)
                 THEN Float(Sign(n) * (q1 \div 2), e + k + 1)
                 ELSE Float(Sign(n) * q1, e + k)

\* an int converted to float (h_pano and w_pano are ints)
FlInt(k) == FlRound(k, 0, FALSE)

FlNeg(x) == Float(-x.m, x.e)

FlAdd(x, y) ==
    LET e == Min(x.e, y.e)
    IN  FlRound(x.m * Pow2(x.e - e) + y.m * Pow2(y.e - e), e, FALSE)

FlSub(x, y) == FlAdd(x, FlNeg(y))

FlMul(x, y) == FlRound(x.m * y.m, x.e + y.e, FALSE)

FlDiv(x, y) ==
    LET shift == MantBits + 3
        num == Abs(x.m) * Pow2(shift)
        den == Abs(y.m)
    IN  IF x.m = 0 THEN Float(0, 0)
        ELSE FlRound(Sign(x.m) * Sign(y.m) * (num \div den),
                     x.e - y.e - shift, num % den # 0)

\* x < y and x >= y
FlLt(x, y) ==
    LET e == Min(x.e, y.e)
    IN  x.m * Pow2(x.e - e) < y.m * Pow2(y.e - e)

FlGe(x, y) == ~FlLt(x, y)

\* the neighbour of a non-zero float on the side of zero
FlTowardZero(x) ==
    IF Abs(x.m) = Pow2(MantBits - 1)
    THEN Float(Sign(x.m) * (Pow2(MantBits) - 1), x.e - 1)
    ELSE Float(Sign(x.m) * (Abs(x.m) - 1), x.e)

\* pi * 2^28, to the nearest integer
PiBits == 843314857

\* np.pi, 2 * np.pi and np.pi / 2
FlPi == FlRound(PiBits, -28, FALSE)
FlTwoPi == Float(FlPi.m, FlPi.e + 1)
FlHalfPi == Float(FlPi.m, FlPi.e - 1)

-----------------------------------------------------------------------------
(* The sampling-grid entry of one output pixel (_run_single, lines 125-136) *)

\* The angles of a pixel's ray, phi = np.arcsin(..) and theta = np.arctan2(..)
\* (lines 125-126), are floats in the ranges of these two functions:
\* phi in [-pi/2, pi/2], theta in [-pi, pi].  The values taken here are the
\* ends of the range, their neighbours inside it, and the quarter points.
Phis == { FlNeg(FlHalfPi), FlTowardZero(FlNeg(FlHalfPi)), Float(0, 0),
          FlTowardZero(FlHalfPi), FlHalfPi }
Thetas == { FlNeg(FlPi), FlTowardZero(FlNeg(FlPi)), FlNeg(FlHalfPi), Float(0, 0),
            FlHalfPi, FlTowardZero(FlPi), FlPi }

\* line 129: ui = (theta - np.pi) * w_pano / (2 * np.pi)
PixelCol(theta, w_pano) == FlDiv(FlMul(FlSub(theta, FlPi), FlInt(w_pano)), FlTwoPi)

\* line 130: uj = (phi - np.pi / 2) * h_pano / np.pi
PixelRow(phi, h_pano) == FlDiv(FlMul(FlSub(phi, FlHalfPi), FlInt(h_pano)), FlPi)

\* lines 132-133 (and 134-135): add the extent where u < 0, then subtract it
\* where u >= extent
Wrap(u, extent) ==
    LET u1 == IF FlLt(u, FlInt(0)) THEN FlAdd(u, FlInt(extent)) ELSE u
    IN  IF FlGe(u1, FlInt(extent)) THEN FlSub(u1, FlInt(extent)) ELSE u1

-----------------------------------------------------------------------------
(* Values a caller can pass *)

\* A panorama argument.  An ndarray is kept by its number of dimensions, its
\* first extent n = shape[0] and its last two extents h, w; a list by its
\* length n and the extents of its images.  The i-th item of a batch is
\* image i.
PanoSizes == {<<2, 4>>}

Ndarray(d, k, sz) == [kind |-> "ndarray", ndim |-> d, n |-> k, h |-> sz[1], w |-> sz[2]]
PyList(k, sz) == [kind |-> "list", ndim |-> 0, n |-> k, h |-> sz[1], w |-> sz[2]]

PanoInputs ==
    UNION { {Ndarray(0, 0, sz)}
            \cup {Ndarray(d, k, sz) : d \in 1..2, k \in 1..MaxBatch}
            \cup {Ndarray(3, 3, sz)}
            \cup {Ndarray(4, k, sz) : k \in 0..MaxBatch}
            \cup {PyList(k, sz) : k \in 0..MaxBatch}
          : sz \in PanoSizes }

\* A rotation spec is a dict with the keys roll, pitch and yaw, in this order
RotKeys == <<"roll", "pitch", "yaw">>

RotSpecs == { [roll |-> 0, pitch |-> 0, yaw |-> 0],
              [roll |-> HalfPi, pitch |-> 0, yaw |-> Pi] }

PyDict(spec) == [kind |-> "dict", val |-> spec]
PyStr(str) == [kind |-> "str", val |-> str]
PySeq(items) == [kind |-> "list", val |-> items]

SeqsUpTo(S, k) == UNION {[1..j -> S] : j \in 0..k}

RotInputs ==
    {PyDict(spec) : spec \in RotSpecs}
    \cup {PySeq(items) : items \in SeqsUpTo({PyDict(spec) : spec \in RotSpecs}, MaxBatch)}

\* the samplers the module numpy_func provides, and the interpolation modes
\* they accept
SamplerNames == {"faster", "naive"}
Modes == {"bilinear", "nearest"}

MethodInputs == {"faster", "bogus"}
ModeInputs == {"bilinear", "bogus"}

-----------------------------------------------------------------------------
(* __call__, lines 168-178: the checks at call entry *)

\* len(rot): the number of keys of a dict, the length of a list
PyLenRot(r) == IF r.kind = "dict" THEN Len(RotKeys) ELSE Len(r.val)

\* len(pano): shape[0] of an ndarray, the length of a list
PyLenPano(p) == p.n

\* line 174: pano[np.newaxis, :, :, :] of a 3-dim array
NormPano(p) ==
    IF p.kind = "ndarray" /\ p.ndim = 3 THEN [p EXCEPT !.ndim = 4, !.n = 1] ELSE p

\* line 175: rot = [rot]
NormRot(p, r) ==
    IF p.kind = "ndarray" /\ p.ndim = 3 THEN PySeq(<<r>>) ELSE r

\* the entry checks taken in the other order: length first, then shape
EntryErrLengthFirst(p, r) ==
    IF p.kind = "list" THEN "AttributeError"
    ELSE IF p.ndim = 0 THEN "TypeError_unsized"
    ELSE IF PyLenPano(NormPano(p)) # PyLenRot(NormRot(p, r)) THEN "LengthAssert"
    ELSE IF p.ndim < 3 THEN "ShapeAssert"
    ELSE None

\* the exception lines 168-178 raise, or None
\*   169: len(pano.shape) of a list raises AttributeError
\*   171: assert _original_shape_len >= 3
\*   177: assert len(pano) == len(rot)
EntryErr(p, r) ==
    IF p.kind = "list" THEN "AttributeError"
    ELSE IF p.ndim < 3 THEN "ShapeAssert"
    ELSE IF PyLenPano(NormPano(p)) # PyLenRot(NormRot(p, r)) THEN "LengthAssert"
    ELSE None

-----------------------------------------------------------------------------
(* __call__, line 181: zip(pano, rot) *)

\* the i-th item of pano along its first axis: image i
PanoItem(p, i) == [img |-> i, h |-> p.h, w |-> p.w]

\* a zip that pairs every image with the first element of rot
RotItemFirst(r, i) ==
    IF r.kind = "dict" THEN PyStr(RotKeys[1]) ELSE r.val[1]

\* the i-th item of rot: iterating a dict yields its keys
RotItem(r, i) ==
    IF r.kind = "dict" THEN PyStr(RotKeys[i]) ELSE r.val[i]

\* zip stops at the shorter of the two
ZipLen(p, r) == IF PyLenPano(p) < PyLenRot(r) THEN PyLenPano(p) ELSE PyLenRot(r)

-----------------------------------------------------------------------------
(* _run_single, lines 101-145 *)

ZeroWork == [coord |-> 0, rot |-> 0, grid |-> 0, sampler |-> 0]

AddWork(a, b) == [coord |-> a.coord + b.coord, rot |-> a.rot + b.rot,
                  grid |-> a.grid + b.grid, sampler |-> a.sampler + b.sampler]

\* lines 139-143: getattr(numpy_func, sampling_method, "faster"); the default
\* is the string "faster", not the function of that name
getattr_sampler(sm) ==
    IF sm \in SamplerNames THEN [kind |-> "function", name |-> sm]
    ELSE [kind |-> "str", name |-> "faster"]

\* a sampler of numpy_func: refuses a mode it does not know, else returns the
\* resampled image, kept as what it was computed from
grid_sample(fn, p, grid, md) ==
    IF md \notin Modes THEN [err |-> "UnknownMode", out |-> None]
    ELSE [err |-> None,
          out |-> [src |-> p.img, grid |-> grid, by |-> fn.name, mode |-> md]]

\* lines 109-136: the geometry of one pair.  rotation_matrix(**rot) raises
\* TypeError when rot is not a mapping.  The sampling grid is kept by what it
\* is computed from: the coordinate grid m, K, R and the panorama's extents.
Geometry(self, p, r) ==
    LET m == perspective_coordinate(self.w_pers, self.h_pers)
        K == intrinsic_matrix(self.K, self.w_pers, self.h_pers, self.fov_x, self.skew)
    IN  IF r.kind # "dict"
        THEN [err |-> "TypeError_mapping", grid |-> None,
              work |-> [ZeroWork EXCEPT !.coord = 1]]
        ELSE LET R == rotation_matrix(self.g2c_rot, r.val)
             IN  [err |-> None,
                  grid |-> [m |-> m, K |-> K, R |-> R,
                            h_pano |-> p.h, w_pano |-> p.w],
                  work |-> [ZeroWork EXCEPT !.coord = 1, !.rot = 1, !.grid = 1]]

\* lines 139-145: the sampler is looked up and called after the geometry
Sample(p, g, sm, md) ==
    LET fn == getattr_sampler(sm)
    IN  IF fn.kind # "function"
        THEN [err |-> "TypeError_not_callable", sampled |-> None, work |-> g.work]
        ELSE LET s == grid_sample(fn, p, g.grid, md)
             IN  [err |-> s.err, sampled |-> s.out,
                  work |-> [g.work EXCEPT !.sampler = 1]]

\* the projector object, as the methods read it
Self == [w_pers |-> w_pers, h_pers |-> h_pers, fov_x |-> fov_x, skew |-> skew,
         K |-> _K, g2c_rot |-> _g2c_rot]

\* _run_single with the sampler looked up before the geometry
run_single_lookup_first(self, p, r, sm, md) ==
    IF getattr_sampler(sm).kind # "function"
    THEN [err |-> "TypeError_not_callable", sampled |-> None, work |-> ZeroWork]
    ELSE LET g == Geometry(self, p, r)
         IN  IF g.err # None
             THEN [err |-> g.err, sampled |-> None, work |-> g.work]
             ELSE Sample(p, g, sm, md)

\* _run_single: what it raises or returns, and the numeric work it did
run_single(self, p, r, sm, md) ==
    LET g == Geometry(self, p, r)
    IN  IF g.err # None
        THEN [err |-> g.err, sampled |-> None, work |-> g.work]
        ELSE Sample(p, g, sm, md)

-----------------------------------------------------------------------------
(* The projector and its calls *)

NoCall ==
    /\ pc = "idle"
    /\ arg_pano = None /\ arg_rot = None /\ pano = None /\ rot = None
    /\ sampling_method = None /\ mode = None
    /\ idx = 0 /\ samples = <<>> /\ result = None /\ err = None
    /\ work = ZeroWork

ProjIdle == [stage |-> "idle", theta |-> 0, phi |-> 0, h_pano |-> 0, w_pano |-> 0,
             ui |-> None, uj |-> None]

Init ==
    /\ w_pers \in Widths /\ h_pers \in Heights /\ fov_x \in Fovs /\ skew \in Skews
    /\ _K = <<intrinsic_matrix(Unset, w_pers, h_pers, fov_x, skew)>>
    /\ _g2c_rot = <<global2camera_rotation_matrix(Unset)>>
    /\ NoCall
    /\ proj = ProjIdle

\* __init__, lines 17-25, of a new projector that replaces the old one: the
\* configuration is stored and both cached matrices are derived from it
Construct ==
    /\ pc = "idle"
    /\ \E w \in Widths, h \in Heights, fov \in Fovs, sk \in Skews :
        /\ w_pers' = w /\ h_pers' = h /\ fov_x' = fov /\ skew' = sk
        /\ _K' = <<intrinsic_matrix(Unset, w, h, fov, sk)>>
        /\ _g2c_rot' = <<global2camera_rotation_matrix(Unset)>>
    /\ UNCHANGED <<callVars, proj>>

\* the configuration of an existing projector is changed: the attribute is
\* assigned, nothing else happens
SetWidth ==
    /\ pc = "idle"
    /\ \E w \in Widths \ {w_pers} : w_pers' = w
    /\ UNCHANGED <<h_pers, fov_x, skew, _K, _g2c_rot, callVars, proj>>

SetHeight ==
    /\ pc = "idle"
    /\ \E h \in Heights \ {h_pers} : h_pers' = h
    /\ UNCHANGED <<w_pers, fov_x, skew, _K, _g2c_rot, callVars, proj>>

SetFov ==
    /\ pc = "idle"
    /\ \E fov \in Fovs \ {fov_x} : fov_x' = fov
    /\ UNCHANGED <<w_pers, h_pers, skew, _K, _g2c_rot, callVars, proj>>

SetSkew ==
    /\ pc = "idle"
    /\ \E sk \in Skews \ {skew} : skew' = sk
    /\ UNCHANGED <<w_pers, h_pers, fov_x, _K, _g2c_rot, callVars, proj>>

\* __call__, lines 168-180
CallEntry ==
    /\ pc = "idle"
    /\ \E p \in PanoInputs, r \in RotInputs, sm \in MethodInputs, md \in ModeInputs :
        /\ arg_pano' = p /\ arg_rot' = r
        /\ sampling_method' = sm /\ mode' = md
        /\ samples' = <<>> /\ result' = None /\ work' = ZeroWork
        /\ IF EntryErr(p, r) # None
           THEN /\ pc' = "raised" /\ err' = EntryErr(p, r)
                /\ pano' = p /\ rot' = r /\ idx' = 0
           ELSE /\ pc' = "loop" /\ err' = None
                /\ pano' = NormPano(p) /\ rot' = NormRot(p, r) /\ idx' = 1
    /\ UNCHANGED <<camVars, proj>>

\* __call__, lines 181-192: one iteration of the loop over zip(pano, rot)
RunPair ==
    /\ pc = "loop"
    /\ idx <= ZipLen(pano, rot)
    /\ LET out == run_single(Self, PanoItem(pano, idx), RotItem(rot, idx),
                             sampling_method, mode)
       IN  /\ work' = AddWork(work, out.work)
           /\ IF out.err # None
              THEN /\ pc' = "raised" /\ err' = out.err
                   /\ UNCHANGED <<idx, samples>>
              ELSE /\ samples' = Append(samples, out.sampled)
                   /\ idx' = idx + 1
                   /\ UNCHANGED <<pc, err>>
    /\ _K' = <<intrinsic_matrix(_K, w_pers, h_pers, fov_x, skew)>>
    /\ _g2c_rot' = <<global2camera_rotation_matrix(_g2c_rot)>>
    /\ UNCHANGED <<w_pers, h_pers, fov_x, skew, arg_pano, arg_rot, pano, rot,
                   sampling_method, mode, result, proj>>

\* lines 194-199: np.stack of the samples (which raises ValueError on an empty
\* list), np.squeeze for a 3-dim input; a list is returned as it is
Reassemble(p, ss) ==
    IF p.kind = "ndarray"
    THEN IF ss = <<>> THEN [err |-> "ValueError_stack", value |-> None]
         ELSE IF p.ndim = 3
              THEN [err |-> None,
                    value |-> [kind |-> "ndarray", ndim |-> 3, items |-> <<ss[1]>>]]
              ELSE [err |-> None,
                    value |-> [kind |-> "ndarray", ndim |-> 4, items |-> ss]]
    ELSE [err |-> None, value |-> [kind |-> "list", ndim |-> 0, items |-> ss]]

\* __call__, lines 194-199, when the loop is over
CallReturn ==
    /\ pc = "loop"
    /\ idx > ZipLen(pano, rot)
    /\ LET out == Reassemble(arg_pano, samples)
       IN  IF out.err # None
           THEN pc' = "raised" /\ err' = out.err /\ result' = None
           ELSE pc' = "done" /\ err' = None /\ result' = out.value
    /\ UNCHANGED <<camVars, arg_pano, arg_rot, pano, rot, sampling_method, mode,
                   idx, samples, work, proj>>

\* the caller takes the result, or the exception, and the call is over
Collect ==
    /\ pc \in {"done", "raised"}
    /\ pc' = "idle"
    /\ arg_pano' = None /\ arg_rot' = None /\ pano' = None /\ rot' = None
    /\ sampling_method' = None /\ mode' = None
    /\ idx' = 0 /\ samples' = <<>> /\ result' = None /\ err' = None
    /\ work' = ZeroWork
    /\ UNCHANGED <<camVars, proj>>

Next ==
    \/ Construct
    \/ SetWidth
    \/ SetHeight
    \/ SetFov
    \/ SetSkew
    \/ CallEntry
    \/ RunPair
    \/ CallReturn
    \/ Collect

Spec == Init /\ [][Next]_vars

-----------------------------------------------------------------------------
(* One entry of the sampling grid, lines 125-136 taken one statement at a   *)
(* time, for every pair of angles and every panorama extent                 *)

\* the largest panorama height taken; widths go up to twice as much
MaxExtent == 8

GridPanoSizes == (1..MaxExtent) \X (1..(2 * MaxExtent))

InitGrid ==
    /\ w_pers = 4 /\ h_pers = 2 /\ fov_x = 90 /\ skew = 0
    /\ _K = <<intrinsic_matrix(Unset, w_pers, h_pers, fov_x, skew)>>
    /\ _g2c_rot = <<global2camera_rotation_matrix(Unset)>>
    /\ NoCall
    /\ \E theta \in Thetas, phi \in Phis, sz \in GridPanoSizes :
           proj = [stage |-> "angles", theta |-> theta, phi |-> phi,
                   h_pano |-> sz[1], w_pano |-> sz[2], ui |-> None, uj |-> None]

\* lines 129-130
ToPixel ==
    /\ proj.stage = "angles"
    /\ proj' = [proj EXCEPT !.stage = "pixel",
                            !.ui = PixelCol(proj.theta, proj.w_pano),
                            !.uj = PixelRow(proj.phi, proj.h_pano)]
    /\ UNCHANGED <<camVars, callVars>>

\* lines 132-133
WrapCol ==
    /\ proj.stage = "pixel"
    /\ proj' = [proj EXCEPT !.stage = "col_wrapped",
                            !.ui = Wrap(proj.ui, proj.w_pano)]
    /\ UNCHANGED <<camVars, callVars>>

\* lines 134-136
WrapRow ==
    /\ proj.stage = "col_wrapped"
    /\ proj' = [proj EXCEPT !.stage = "grid",
                            !.uj = Wrap(proj.uj, proj.h_pano)]
    /\ UNCHANGED <<camVars, callVars>>

NextGrid ==
    \/ ToPixel
    \/ WrapCol
    \/ WrapRow

SpecGrid == InitGrid /\ [][NextGrid]_vars

-----------------------------------------------------------------------------
(* Properties *)

InCall == pc # "idle"

\* an argument that holds images: a list, or an array of 3 or more dimensions
IsImages(p) == p.kind = "list" \/ p.ndim >= 3

IsSingle(p) == p.kind = "ndarray" /\ p.ndim = 3

\* the number of images of the panorama argument, and of rotation specs of
\* the rotation argument, as the caller gave them
NumImages(p) == IF IsSingle(p) THEN 1 ELSE p.n
NumSpecs(r) == IF r.kind = "dict" THEN 1 ELSE Len(r.val)

\* the rotation spec given for the i-th image
SpecAt(r, i) == IF r.kind = "dict" THEN r.val ELSE r.val[i].val

\* a call that gives one rotation spec per image, at least one image, a
\* sampler the module provides and a mode the sampler knows
WellFormedCall ==
    /\ InCall
    /\ IsImages(arg_pano)
    /\ NumImages(arg_pano) >= 1
    /\ IF IsSingle(arg_pano) THEN arg_rot.kind = "dict"
       ELSE arg_rot.kind = "list" /\ Len(arg_rot.val) = NumImages(arg_pano)
    /\ sampling_method \in SamplerNames
    /\ mode \in Modes

SameContainer ==
    /\ result.kind = arg_pano.kind
    /\ result.kind = "ndarray" => result.ndim = arg_pano.ndim
    /\ Len(result.items) = NumImages(arg_pano)

\* C1: the output has the container shape class of the panorama input: a
\* single image gives a single image, a stacked array of N images a stacked
\* array of N images, and a list of N images a list of N images.
C1_ContainerPreserved ==
    /\ pc = "done" => SameContainer
    /\ WellFormedCall => pc # "raised"

\* C2: a call in which the number of images and the number of rotation specs
\* differ fails with the length-mismatch error.
C2_LengthMismatchRaises ==
    (InCall /\ IsImages(arg_pano) /\ NumImages(arg_pano) # NumSpecs(arg_rot))
        => (pc = "raised" /\ err = "LengthAssert")

\* C3: a call that reaches the selection of the sampler with a name the
\* sampler module does not provide fails with the unknown-method error, and
\* with no other error.
C3_UnknownMethodError ==
    (pc = "raised" /\ sampling_method \notin SamplerNames /\ work.grid >= 1)
        => err = "UnknownMethod"

ValidationErrors ==
    {"ShapeAssert", "LengthAssert", "TypeError_not_callable", "UnknownMethod",
     "UnknownMode"}

C5_KMatchesConfiguration ==
    pc = "loop" =>
        \A i \in 1..Len(samples) :
            /\ samples[i].grid.K = BuildK(w_pers, h_pers, fov_x, skew)
            /\ samples[i].grid.K[1][3] = 500 * samples[i].grid.m.w_out
            /\ samples[i].grid.K[2][3] = 500 * samples[i].grid.m.h_out

\* the per-image pipeline applied to the i-th image with the i-th rotation
\* spec of the call's arguments
PipelineResult(i) ==
    [src |-> i,
     grid |-> [m |-> [h_out |-> h_pers, w_out |-> w_pers],
               K |-> _K[1],
               R |-> MatMul(_g2c_rot[1],
                            create_rotation_matrix(SpecAt(arg_rot, i).roll,
                                                   SpecAt(arg_rot, i).pitch,
                                                   SpecAt(arg_rot, i).yaw)),
               h_pano |-> arg_pano.h, w_pano |-> arg_pano.w],
     by |-> sampling_method,
     mode |-> mode]

C7_ShapeError ==
    (InCall /\ arg_pano.kind = "ndarray" /\ arg_pano.ndim < 3)
        => (pc = "raised" /\ err = "ShapeAssert" /\ work = ZeroWork
            /\ samples = <<>>)

\* a 2-dim array that would have failed the length check too
C7_Witness ==
    /\ pc = "raised" /\ err = "ShapeAssert"
    /\ arg_pano.ndim = 2
    /\ PyLenPano(arg_pano) # PyLenRot(arg_rot)

\* C8: after the wrap, the grid entry lies inside the panorama:
\* 0 <= col < W_pano and 0 <= row < H_pano, for every theta in [-pi, pi],
\* every phi in [-pi/2, pi/2] and every panorama size.
C8_GridInsidePanorama ==
    proj.stage = "grid" =>
        /\ FlGe(proj.ui, FlInt(0)) /\ FlLt(proj.ui, FlInt(proj.w_pano))
        /\ FlGe(proj.uj, FlInt(0)) /\ FlLt(proj.uj, FlInt(proj.h_pano))

\* C9: the global->camera basis matrix maps the global forward axis (1,0,0) to
\* the camera forward axis (0,0,1) and the global up axis (0,0,1) to the
\* camera up axis (0,1,0), and rotation_matrix(0,0,0) is not the identity.
C9_BasisChange ==
    _g2c_rot # Unset =>
        /\ MatVec(_g2c_rot[1], <<1, 0, 0>>) = <<0, 0, 1>>
        /\ MatVec(_g2c_rot[1], <<0, 0, 1>>) = <<0, 1, 0>>
        /\ rotation_matrix(_g2c_rot, [roll |-> 0, pitch |-> 0, yaw |-> 0]) # Identity3

\* C10: every pair handed to _run_single holds a rotation spec, and a stacked
\* array given with a single rotation spec is rejected by the length check.
C10_PairsHoldRotationSpecs ==
    /\ pc = "loop" =>
           \A i \in 1..ZipLen(pano, rot) : RotItem(rot, i).kind = "dict"
    /\ (InCall /\ arg_pano.kind = "ndarray" /\ arg_pano.ndim = 4
               /\ arg_rot.kind = "dict")
           => (pc = "raised" /\ err = "LengthAssert")

====
